---- MODULE Spec2Model ----
(***************************************************************************)
(* Model of the zpool control plane of libzfs-rs (src/src/zpool/mod.rs):   *)
(* the ZpoolEngine trait's checked operations (create, destroy,            *)
(* read_properties, update_properties, export, status) built from the      *)
(* unchecked primitives of a backend, and the stderr classifier            *)
(* ZpoolError::from_stderr.                                                *)
(*                                                                         *)
(* One caller runs one checked operation at a time.  Every call the        *)
(* operation makes on the backend is one step, recorded in `log` together  *)
(* with what the backend answered.  The backend (the unchecked primitives, *)
(* implemented in zpool/open3.rs) answers each call either from its state  *)
(* (pools, props, vdevs) or with an error.                                 *)
(*                                                                         *)
(* Five specifications share the variables:                                *)
(*   Spec          the checked operations on two pool names                *)
(*   SpecRace      the same next to another actor that destroys pools      *)
(*   SpecUpdate    update_properties over all current and wanted values    *)
(*   SpecClassify  from_stderr over diagnostic texts                       *)
(*   SpecConvert   From<io::Error> over io::Error values                   *)
(***************************************************************************)
EXTENDS Integers, Sequences, FiniteSets, TLC

VARIABLES
    pools,        \* backend: names of the pools that exist
    props,        \* backend: the properties stored for each pool name
    vdevs,        \* backend: the vdevs each pool is built from
    pc,           \* the caller's position inside the checked operation
    op,           \* the checked operation in progress and its arguments
    current,      \* update_properties: `let current` (mod.rs:219)
    log,          \* the backend calls issued by the operation so far
    result,       \* what the checked operation returned
    stderr_raw,   \* from_stderr: the raw diagnostic bytes
    classified,   \* from_stderr: the returned ZpoolError
    io_err,       \* From<io::Error>: the io::Error to convert
    converted     \* From<io::Error>: the returned ZpoolError

vars == <<pools, props, vdevs, pc, op, current, log, result, stderr_raw, classified,
         io_err, converted>>

-----------------------------------------------------------------------------
(* Bounds *)

\* number of distinct non-empty comment strings
NumComments == 2

\* number of fragments a diagnostic text is assembled from
MaxFrags == 3

-----------------------------------------------------------------------------
(* Values *)

\* the pool names of the integration tests (test_zpool.rs:16, 112)
ZPOOL_NAME == "tests"

Names == {ZPOOL_NAME, "zpool-tests-fail"}

CommentPool == <<"c1", "c2", "c3", "c4">>

CommentStrings == {CommentPool[i] : i \in 1..NumComments}

\* Option<T>: None is the empty sequence, Some(x) the sequence <<x>>
None == << >>

Some(x) == <<x>>

\* Result<T, ZpoolError>
Ok(v) == [ok |-> TRUE, val |-> v]

Err(e) == [ok |-> FALSE, val |-> e]

\* ZpoolError values
ZpoolError(kind, payload) == [kind |-> kind, payload |-> payload]

PoolNotFound == ZpoolError("PoolNotFound", << >>)

InvalidTopology == ZpoolError("InvalidTopology", << >>)

CmdNotFound == ZpoolError("CmdNotFound", << >>)

DeviceTooSmall == ZpoolError("DeviceTooSmall", << >>)

PermissionDenied == ZpoolError("PermissionDenied", << >>)

VdevReuse(vdev, pool) == ZpoolError("VdevReuse", <<vdev, pool>>)

Other(err) == ZpoolError("Other", <<err>>)

Io(err) == ZpoolError("Io", <<err>>)

\* ZpoolError::kind
kind(e) == e.kind

\* std::io::ErrorKind
IoErrorKinds ==
    {"NotFound", "PermissionDenied", "ConnectionRefused", "ConnectionReset",
     "ConnectionAborted", "NotConnected", "AddrInUse", "AddrNotAvailable",
     "BrokenPipe", "AlreadyExists", "WouldBlock", "InvalidInput", "InvalidData",
     "TimedOut", "WriteZero", "Interrupted", "Other", "UnexpectedEof"}

\* what an io::Error is made of besides its kind: an OS error code, nothing,
\* or a custom payload such as the messages of mod.rs:322, 326
IoErrorReprs == {"Os", "Simple", "oh no", "oh now"}

\* std::io::Error
IoErrors == [kind : IoErrorKinds, repr : IoErrorReprs]

\* the conversion that wraps every io::Error, the missing command included
from_AlwaysIo(err) == Io(err)

\* impl From<io::Error> for ZpoolError (mod.rs:114-121)
from(err) ==
    IF err.kind = "NotFound" THEN CmdNotFound ELSE Io(err)

\* the errors a backend primitive answers with in this model
BackendErrors == {CmdNotFound, Other(<<"wat">>)}

CacheTypes == {"Default", "None"}

FailModes == {"Wait", "Continue"}

\* ZpoolProperties: the settable attributes of a pool as read back; a pool
\* without comment reads as None, a comment that is set is not empty
ZpoolProperties ==
    [auto_expand: BOOLEAN, auto_replace: BOOLEAN, cache_file: CacheTypes,
     comment: {None} \cup {Some(c) : c \in CommentStrings},
     delegation: BOOLEAN, fail_mode: FailModes]

\* ZpoolPropertiesWrite: what the caller wants; the comment is a plain string
ZpoolPropertiesWrite ==
    [auto_expand: BOOLEAN, auto_replace: BOOLEAN, cache_file: CacheTypes,
     comment: {""} \cup CommentStrings,
     delegation: BOOLEAN, fail_mode: FailModes]

DefaultProperties ==
    [auto_expand |-> FALSE, auto_replace |-> FALSE, cache_file |-> "Default",
     comment |-> None, delegation |-> TRUE, fail_mode |-> "Wait"]

\* Topology: the vdevs of the pool to create
Topologies == {<< >>, <<"/vdevs/vdev0">>, <<"/vdevs/vdev1">>}

is_suitable_for_create(topology) == Len(topology) > 0

Mounts == {None, Some("/mnt")}

AltRoots == {None, Some("/alt")}

NoArgs == << >>

NoResult == [ok |-> FALSE, val |-> ZpoolError("-", << >>)]

\* no io::Error at hand
NoIoError == [kind |-> "-", repr |-> "-"]

NoOp == [fn |-> "-", name |-> "-", args |-> NoArgs]

Unit == "()"

-----------------------------------------------------------------------------
(* The classifier ZpoolError::from_stderr.  A diagnostic text is a         *)
(* sequence of tokens: the literal stretches of the four patterns, single  *)
(* words without whitespace, the quote, blanks, and a byte that is not     *)
(* valid UTF-8.  The text stands for the concatenation of its tokens.      *)

FE == "following errors:\n"

IPOAP == " is part of active pool '"

QUOTE == "'"

CC == "cannot create "

ZOL == ": one or more vdevs refer to the same device, or one of\nthe devices is part of an active md or lvm device\n"

TS == ": one or more devices is less than the minimum size "

PD == ": permission denied\n"

PRE == "invalid vdev specification\nuse '-f' to override the "

SP == " "

NL == "\n"

\* a byte that is no valid UTF-8, and U+FFFD, which replaces it
BadByte == "\\xFF"

Replacement == "\\u{FFFD}"

Words == {"/vdevs/vdev0", "/vdevs/vdev1", "tank", "tests", "zpool-tests-fail", "(64M)", "wat"}

\* the token is one or more characters none of which is whitespace
NonSpace(tok) == tok \in Words \cup {QUOTE, Replacement}

\* the first character of the token is not whitespace
StartsNonSpace(tok) == tok \notin {IPOAP, SP, NL}

\* a decoding that leaves the invalid bytes out
from_utf8_lossy_DropInvalid(raw) == SelectSeq(raw, LAMBDA b : b # BadByte)

\* String::from_utf8_lossy: every invalid byte becomes U+FFFD
from_utf8_lossy(raw) ==
    [i \in 1..Len(raw) |-> IF raw[i] = BadByte THEN Replacement ELSE raw[i]]

Max(S) == CHOOSE x \in S : \A y \in S : y <= x

Min(S) == CHOOSE x \in S : \A y \in S : x <= y

\* `\S+` from position i, greedy: the last position of the longest stretch
\* of non-whitespace tokens that starts at i (i - 1 when there is none)
RunEnd(t, i) ==
    Max({e \in (i - 1)..Len(t) : \A k \in i..e : NonSpace(t[k])})

\* the closing quotes `(\S+)'` can end at when the group starts at s
ClosingQuotes(t, s) == {q \in (s + 1)..RunEnd(t, s) : t[q] = QUOTE}

\* RE_REUSE_VDEV (mod.rs:27) matches with the match starting at i
ReuseVdevAt(t, i) ==
    /\ t[i] = FE
    /\ LET e == RunEnd(t, i + 1) IN
          /\ e >= i + 1
          /\ e + 1 <= Len(t)
          /\ t[e + 1] = IPOAP
          /\ ClosingQuotes(t, e + 2) # {}

\* RE_REUSE_VDEV.is_match
RE_REUSE_VDEV(t) == \E i \in 1..Len(t) : ReuseVdevAt(t, i)

\* captures with the two groups handed out in the opposite order
captures_Swapped(t) ==
    LET i == Min({j \in 1..Len(t) : ReuseVdevAt(t, j)})
        e == RunEnd(t, i + 1)
        q == Max(ClosingQuotes(t, e + 2))
    IN <<SubSeq(t, e + 2, q - 1), SubSeq(t, i + 1, e)>>

\* RE_REUSE_VDEV.captures: groups 1 and 2 of the leftmost match, each group
\* as long as it can be
captures(t) ==
    LET i == Min({j \in 1..Len(t) : ReuseVdevAt(t, j)})
        e == RunEnd(t, i + 1)
        q == Max(ClosingQuotes(t, e + 2))
    IN <<SubSeq(t, i + 1, e), SubSeq(t, e + 2, q - 1)>>

\* `cannot create \S+` followed by the literal `tail` ends at tail's position
CannotCreate(t, tail) ==
    {e + 1 : e \in {RunEnd(t, i + 1) : i \in {j \in 1..Len(t) : t[j] = CC}}
                  \cap {e \in 1..(Len(t) - 1) : NonSpace(t[e]) /\ t[e + 1] = tail}}

\* RE_REUSE_VDEV_ZOL.is_match (mod.rs:26)
RE_REUSE_VDEV_ZOL(t) == CannotCreate(t, ZOL) # {}

\* RE_TOO_SMALL.is_match (mod.rs:28)
RE_TOO_SMALL(t) ==
    \E k \in CannotCreate(t, TS) : k + 1 <= Len(t) /\ StartsNonSpace(t[k + 1])

\* RE_PERMISSION_DENIED.is_match (mod.rs:29)
RE_PERMISSION_DENIED(t) == CannotCreate(t, PD) # {}

\* from_stderr with the permission pattern tried first
from_stderr_PermissionFirst(raw) ==
    LET stderr == from_utf8_lossy(raw) IN
    IF RE_PERMISSION_DENIED(stderr) THEN PermissionDenied
    ELSE IF RE_REUSE_VDEV(stderr)
    THEN LET caps == captures(stderr) IN VdevReuse(caps[1], caps[2])
    ELSE IF RE_REUSE_VDEV_ZOL(stderr) THEN VdevReuse(<< >>, << >>)
    ELSE IF RE_TOO_SMALL(stderr) THEN DeviceTooSmall
    ELSE Other(stderr)

\* from_stderr without the branch of mod.rs:132-134
from_stderr_NoZol(raw) ==
    LET stderr == from_utf8_lossy(raw) IN
    IF RE_REUSE_VDEV(stderr)
    THEN LET caps == captures(stderr) IN VdevReuse(caps[1], caps[2])
    ELSE IF RE_TOO_SMALL(stderr) THEN DeviceTooSmall
    ELSE IF RE_PERMISSION_DENIED(stderr) THEN PermissionDenied
    ELSE Other(stderr)

\* mod.rs:125-142
from_stderr(raw) ==
    LET stderr == from_utf8_lossy(raw) IN
    IF RE_REUSE_VDEV(stderr)
    THEN LET caps == captures(stderr) IN VdevReuse(caps[1], caps[2])
    ELSE IF RE_REUSE_VDEV_ZOL(stderr) THEN VdevReuse(<< >>, << >>)
    ELSE IF RE_TOO_SMALL(stderr) THEN DeviceTooSmall
    ELSE IF RE_PERMISSION_DENIED(stderr) THEN PermissionDenied
    ELSE Other(stderr)

-----------------------------------------------------------------------------
(* The backend: the unchecked primitives of ZpoolEngine (declared in       *)
(* mod.rs, implemented by zpool/open3.rs).  Each operator is the set of    *)
(* outcomes of one call: what it returns and the backend state it leaves.  *)

Outcome(ret, ps, pr, vd) == [ret |-> ret, pools |-> ps, props |-> pr, vdevs |-> vd]

\* the call fails and changes nothing
Fails == {Outcome(Err(e), pools, props, vdevs) : e \in BackendErrors}

\* the property name `zpool set` uses for each attribute
Keys == <<"autoexpand", "autoreplace", "cachefile", "comment", "delegation", "failmode">>

\* what the pool stores when `key` is set to `value`: an empty comment
\* clears the comment
Stored(key, value) ==
    IF key = "comment" THEN (IF value = "" THEN None ELSE Some(value)) ELSE value

WithProperty(p, key, value) ==
    CASE key = "autoexpand"  -> [p EXCEPT !.auto_expand = Stored(key, value)]
      [] key = "autoreplace" -> [p EXCEPT !.auto_replace = Stored(key, value)]
      [] key = "cachefile"   -> [p EXCEPT !.cache_file = Stored(key, value)]
      [] key = "comment"     -> [p EXCEPT !.comment = Stored(key, value)]
      [] key = "delegation"  -> [p EXCEPT !.delegation = Stored(key, value)]
      [] key = "failmode"    -> [p EXCEPT !.fail_mode = Stored(key, value)]

\* the properties a pool created with `p` (Option<ZpoolPropertiesWrite>) has
CreatedWith(p) ==
    IF p = None THEN DefaultProperties
    ELSE [p[1] EXCEPT !.comment = Stored("comment", p[1].comment)]

\* an exists that imports the pool it does not find
exists_Importing(name) ==
    {Outcome(Ok(TRUE), pools \cup {name}, props,
             [vdevs EXCEPT ![name] = IF name \in pools THEN @ ELSE <<"/vdevs/vdev1">>])}
    \cup Fails

exists(name) == {Outcome(Ok(name \in pools), pools, props, vdevs)} \cup Fails

\* the vdevs of `topology` that a pool already uses, each with its owner
InUse(topology) ==
    {u \in {<<topology[i], n>> : i \in DOMAIN topology, n \in pools} :
        \E j \in DOMAIN vdevs[u[2]] : vdevs[u[2]][j] = u[1]}

\* what `zpool create name` prints when `vdev` is in use by pool `owner`:
\* the diagnostic that names both (mod.rs:298), or the one that names
\* neither (mod.rs:299), depending on the platform's zpool
ReuseDiagnostics(name, vdev, owner) ==
    {<<PRE, FE, vdev, IPOAP, owner, QUOTE>>,
     <<CC, QUOTE, name, QUOTE, ZOL>>}

\* a failed `zpool create` is reported as from_stderr of what it printed
create_unchecked(name, topology, p, mount, alt_root) ==
    IF name \in pools THEN Fails
    ELSE IF InUse(topology) # {}
    THEN {Outcome(Err(from_stderr(text)), pools, props, vdevs) :
              text \in UNION {ReuseDiagnostics(name, u[1], u[2]) : u \in InUse(topology)}}
         \cup Fails
    ELSE {Outcome(Ok(Unit), pools \cup {name},
                  [props EXCEPT ![name] = CreatedWith(p)],
                  [vdevs EXCEPT ![name] = topology])} \cup Fails

destroy_unchecked(name, force) ==
    IF name \in pools
    THEN {Outcome(Ok(Unit), pools \ {name},
                  [props EXCEPT ![name] = DefaultProperties],
                  [vdevs EXCEPT ![name] = << >>])} \cup Fails
    ELSE Fails

export_unchecked(name, force) ==
    IF name \in pools
    THEN {Outcome(Ok(Unit), pools \ {name},
                  [props EXCEPT ![name] = DefaultProperties],
                  [vdevs EXCEPT ![name] = << >>])} \cup Fails
    ELSE Fails

read_properties_unchecked(name) ==
    IF name \in pools
    THEN {Outcome(Ok(props[name]), pools, props, vdevs)} \cup Fails
    ELSE Fails

status_unchecked(name) ==
    IF name \in pools
    THEN {Outcome(Ok([name |-> name, health |-> "Online"]), pools, props, vdevs)}
         \cup Fails
    ELSE Fails

set_unchecked(name, key, value) ==
    IF name \in pools
    THEN {Outcome(Ok(Unit), pools,
                  [props EXCEPT ![name] = WithProperty(props[name], key, value)],
                  vdevs)}
         \cup Fails
    ELSE Fails

-----------------------------------------------------------------------------
(* The caller side: the default methods of trait ZpoolEngine *)

\* entering a checked operation
Enter(fn, name, args) ==
    /\ pc = "idle"
    /\ op' = [fn |-> fn, name |-> name, args |-> args]
    /\ current' = DefaultProperties

\* one call on the backend with outcome o, recorded in the log
Call(lg, fn, name, args, o) ==
    /\ log' = Append(lg, [fn |-> fn, name |-> name, args |-> args, ret |-> o.ret])
    /\ pools' = o.pools
    /\ props' = o.props
    /\ vdevs' = o.vdevs

\* return r from the checked operation
Return(r) ==
    /\ pc' = "done"
    /\ result' = r

\* the existence guard asking the backend a second time before it gives up
ExistsGuard_Retry(fn, name, args, next) ==
    /\ Enter(fn, name, args)
    /\ \E o \in exists(name) :
          /\ IF o.ret.ok /\ ~o.ret.val
             THEN Call(<<[fn |-> "exists", name |-> name, args |-> NoArgs, ret |-> o.ret]>>,
                       "exists", name, NoArgs, o)
             ELSE Call(<< >>, "exists", name, NoArgs, o)
          /\ IF ~o.ret.ok THEN Return(o.ret)
             ELSE IF ~o.ret.val THEN Return(Err(PoolNotFound))
             ELSE pc' = next /\ result' = NoResult
    /\ UNCHANGED <<stderr_raw, classified, io_err, converted>>

\* ExistsGuard without `return Err(ZpoolError::PoolNotFound)`: the operation
\* goes on although the pool does not exist
ExistsGuard_NoShortCircuit(fn, name, args, next) ==
    /\ Enter(fn, name, args)
    /\ \E o \in exists(name) :
          /\ Call(<< >>, "exists", name, NoArgs, o)
          /\ IF ~o.ret.ok THEN Return(o.ret)
             ELSE pc' = next /\ result' = NoResult
    /\ UNCHANGED <<stderr_raw, classified, io_err, converted>>

\* `if !self.exists(&name)? { return Err(ZpoolError::PoolNotFound); }`
\* at the entry of operation fn; `next` is where the operation goes on
ExistsGuard(fn, name, args, next) ==
    /\ Enter(fn, name, args)
    /\ \E o \in exists(name) :
          /\ Call(<< >>, "exists", name, NoArgs, o)
          /\ IF ~o.ret.ok THEN Return(o.ret)
             ELSE IF ~o.ret.val THEN Return(Err(PoolNotFound))
             ELSE pc' = next /\ result' = NoResult
    /\ UNCHANGED <<stderr_raw, classified, io_err, converted>>

\* the caller asks exists(name) itself (mod.rs:154)
call_exists(name) ==
    /\ Enter("exists", name, NoArgs)
    /\ \E o \in exists(name) :
          /\ Call(<< >>, "exists", name, NoArgs, o)
          /\ Return(o.ret)
    /\ UNCHANGED <<stderr_raw, classified, io_err, converted>>

\* create without the topology check
create_Unguarded(name, topology, p, mount, alt_root) ==
    /\ Enter("create", name,
             [topology |-> topology, props |-> p, mount |-> mount, alt_root |-> alt_root])
    /\ log' = << >>
    /\ pc' = "create_unchecked"
    /\ result' = NoResult
    /\ UNCHANGED <<pools, props, vdevs, stderr_raw, classified, io_err, converted>>

\* create asking exists(name) after the topology check, and delegating only
\* when exists answers false
create_ExistsGuarded(name, topology, p, mount, alt_root) ==
    /\ Enter("create", name,
             [topology |-> topology, props |-> p, mount |-> mount, alt_root |-> alt_root])
    /\ IF ~is_suitable_for_create(topology)
       THEN /\ Return(Err(InvalidTopology))
            /\ log' = << >>
            /\ UNCHANGED <<pools, props, vdevs>>
       ELSE \E o \in exists(name) :
               /\ Call(<< >>, "exists", name, NoArgs, o)
               /\ IF ~o.ret.ok THEN Return(o.ret)
                  ELSE IF o.ret.val THEN Return(Err(Other(<<"wat">>)))
                  ELSE pc' = "create_unchecked" /\ result' = NoResult
    /\ UNCHANGED <<stderr_raw, classified, io_err, converted>>

\* mod.rs:170-185
create(name, topology, p, mount, alt_root) ==
    /\ Enter("create", name,
             [topology |-> topology, props |-> p, mount |-> mount, alt_root |-> alt_root])
    /\ log' = << >>
    /\ IF ~is_suitable_for_create(topology)
       THEN Return(Err(InvalidTopology))
       ELSE pc' = "create_unchecked" /\ result' = NoResult
    /\ UNCHANGED <<pools, props, vdevs, stderr_raw, classified, io_err, converted>>

\* create reporting success whatever create_unchecked answered
create_delegate_SwallowsError ==
    /\ pc = "create_unchecked"
    /\ \E o \in create_unchecked(op.name, op.args.topology, op.args.props,
                                 op.args.mount, op.args.alt_root) :
          /\ Call(log, "create_unchecked", op.name,
                  [topology |-> op.args.topology, props |-> op.args.props,
                   mount |-> op.args.mount, alt_root |-> op.args.alt_root], o)
          /\ Return(Ok(Unit))
    /\ UNCHANGED <<op, current, stderr_raw, classified, io_err, converted>>

\* mod.rs:186
create_delegate ==
    /\ pc = "create_unchecked"
    /\ \E o \in create_unchecked(op.name, op.args.topology, op.args.props,
                                 op.args.mount, op.args.alt_root) :
          /\ Call(log, "create_unchecked", op.name,
                  [topology |-> op.args.topology, props |-> op.args.props,
                   mount |-> op.args.mount, alt_root |-> op.args.alt_root], o)
          /\ Return(o.ret)
    /\ UNCHANGED <<op, current, stderr_raw, classified, io_err, converted>>

\* mod.rs:192-195
destroy(name, force) == ExistsGuard("destroy", name, <<force>>, "destroy_unchecked")

\* destroy reporting every failure of destroy_unchecked as PoolNotFound
destroy_delegate_MapsError ==
    /\ pc = "destroy_unchecked"
    /\ \E o \in destroy_unchecked(op.name, op.args[1]) :
          /\ Call(log, "destroy_unchecked", op.name, <<op.args[1]>>, o)
          /\ Return(IF o.ret.ok THEN o.ret ELSE Err(PoolNotFound))
    /\ UNCHANGED <<op, current, stderr_raw, classified, io_err, converted>>

\* mod.rs:197
destroy_delegate ==
    /\ pc = "destroy_unchecked"
    /\ \E o \in destroy_unchecked(op.name, op.args[1]) :
          /\ Call(log, "destroy_unchecked", op.name, <<op.args[1]>>, o)
          /\ Return(o.ret)
    /\ UNCHANGED <<op, current, stderr_raw, classified, io_err, converted>>

\* mod.rs:202-205
read_properties(name) ==
    ExistsGuard("read_properties", name, NoArgs, "read_properties_unchecked")

\* mod.rs:206
read_properties_delegate ==
    /\ pc = "read_properties_unchecked"
    /\ \E o \in read_properties_unchecked(op.name) :
          /\ Call(log, "read_properties_unchecked", op.name, NoArgs, o)
          /\ Return(o.ret)
    /\ UNCHANGED <<op, current, stderr_raw, classified, io_err, converted>>

\* mod.rs:262-265
export(name, force) == ExistsGuard("export", name, <<force>>, "export_unchecked")

\* export looking for the pool once more before it delegates
export_delegate_Rechecks ==
    /\ pc = "export_unchecked"
    /\ IF op.name \in pools
       THEN \E o \in export_unchecked(op.name, op.args[1]) :
               /\ Call(log, "export_unchecked", op.name, <<op.args[1]>>, o)
               /\ Return(o.ret)
       ELSE /\ Return(Err(PoolNotFound))
            /\ UNCHANGED <<pools, props, vdevs, log>>
    /\ UNCHANGED <<op, current, stderr_raw, classified, io_err, converted>>

\* mod.rs:266
export_delegate ==
    /\ pc = "export_unchecked"
    /\ \E o \in export_unchecked(op.name, op.args[1]) :
          /\ Call(log, "export_unchecked", op.name, <<op.args[1]>>, o)
          /\ Return(o.ret)
    /\ UNCHANGED <<op, current, stderr_raw, classified, io_err, converted>>

\* status going to status_unchecked without asking exists
status_Unguarded(name) ==
    /\ Enter("status", name, NoArgs)
    /\ pc' = "status_unchecked"
    /\ log' = << >>
    /\ result' = NoResult
    /\ UNCHANGED <<pools, props, vdevs, stderr_raw, classified, io_err, converted>>

\* mod.rs:282-285
status(name) == ExistsGuard("status", name, NoArgs, "status_unchecked")

\* mod.rs:286
status_delegate ==
    /\ pc = "status_unchecked"
    /\ \E o \in status_unchecked(op.name) :
          /\ Call(log, "status_unchecked", op.name, NoArgs, o)
          /\ Return(o.ret)
    /\ UNCHANGED <<op, current, stderr_raw, classified, io_err, converted>>

\* the comment handled before the cache file
order_Swapped == <<"auto_expand", "auto_replace", "comment", "cache_file", "delegation", "fail_mode">>

\* mod.rs:221-249: the order in which update_properties goes through the
\* attributes
order == <<"auto_expand", "auto_replace", "cache_file", "comment", "delegation", "fail_mode">>

\* the position of update_properties after the attribute `here`
After(here) ==
    LET i == CHOOSE j \in DOMAIN order : order[j] = here IN
    IF i < Len(order) THEN order[i + 1] ELSE "reread"

\* mod.rs:210-217
update_properties(name, p) ==
    ExistsGuard("update_properties", name, p, "read_current")

\* the caller repeats the update_properties call that has just succeeded,
\* with the same name and properties (mod.rs:210-217); the log goes on, so
\* that it holds the calls of both
update_properties_again ==
    /\ pc = "done"
    /\ op.fn = "update_properties"
    /\ result.ok
    /\ Cardinality({i \in DOMAIN log : log[i].fn = "exists"}) = 1
    /\ current' = DefaultProperties
    /\ \E o \in exists(op.name) :
          /\ Call(log, "exists", op.name, NoArgs, o)
          /\ IF ~o.ret.ok THEN Return(o.ret)
             ELSE IF ~o.ret.val THEN Return(Err(PoolNotFound))
             ELSE pc' = "read_current" /\ result' = NoResult
    /\ UNCHANGED <<op, stderr_raw, classified, io_err, converted>>

\* the initial read without the `?`: when it fails, update_properties goes
\* on with the default properties for `current`
update_read_current_IgnoresError ==
    /\ pc = "read_current"
    /\ \E o \in read_properties_unchecked(op.name) :
          /\ Call(log, "read_properties_unchecked", op.name, NoArgs, o)
          /\ current' = IF o.ret.ok THEN o.ret.val ELSE DefaultProperties
          /\ pc' = order[1]
          /\ result' = result
    /\ UNCHANGED <<op, stderr_raw, classified, io_err, converted>>

\* mod.rs:219  `let current = self.read_properties_unchecked(&name)?;`
update_read_current ==
    /\ pc = "read_current"
    /\ \E o \in read_properties_unchecked(op.name) :
          /\ Call(log, "read_properties_unchecked", op.name, NoArgs, o)
          /\ IF o.ret.ok
             THEN current' = o.ret.val /\ pc' = order[1] /\ result' = result
             ELSE current' = current /\ Return(o.ret)
    /\ UNCHANGED <<op, stderr_raw, classified, io_err, converted>>

\* SetIfDiffers without the `?`: a failed set call is ignored and
\* update_properties goes on
SetIfDiffers_IgnoreError(here, differs, key, value) ==
    /\ pc = here
    /\ IF differs
       THEN \E o \in set_unchecked(op.name, key, value) :
               /\ Call(log, "set_unchecked", op.name, <<key, value>>, o)
               /\ pc' = After(here)
               /\ result' = result
       ELSE /\ pc' = After(here)
            /\ UNCHANGED <<log, pools, props, vdevs, result>>
    /\ UNCHANGED <<op, current, stderr_raw, classified, io_err, converted>>

\* SetIfDiffers where a failed set call gives up the remaining sets and goes
\* to the final read
SetIfDiffers_RereadOnError(here, differs, key, value) ==
    /\ pc = here
    /\ IF differs
       THEN \E o \in set_unchecked(op.name, key, value) :
               /\ Call(log, "set_unchecked", op.name, <<key, value>>, o)
               /\ pc' = IF o.ret.ok THEN After(here) ELSE "reread"
               /\ result' = result
       ELSE /\ pc' = After(here)
            /\ UNCHANGED <<log, pools, props, vdevs, result>>
    /\ UNCHANGED <<op, current, stderr_raw, classified, io_err, converted>>

\* `if differs { self.set_unchecked(&name, key, value)?; }` at the attribute
\* `here` of update_properties
SetIfDiffers(here, differs, key, value) ==
    /\ pc = here
    /\ IF differs
       THEN \E o \in set_unchecked(op.name, key, value) :
               /\ Call(log, "set_unchecked", op.name, <<key, value>>, o)
               /\ IF o.ret.ok
                  THEN pc' = After(here) /\ result' = result
                  ELSE Return(o.ret)
       ELSE /\ pc' = After(here)
            /\ UNCHANGED <<log, pools, props, vdevs, result>>
    /\ UNCHANGED <<op, current, stderr_raw, classified, io_err, converted>>

\* mod.rs:221-223
update_auto_expand ==
    SetIfDiffers("auto_expand",
                 current.auto_expand # op.args.auto_expand,
                 "autoexpand", op.args.auto_expand)

\* autoreplace set to the value wanted for autoexpand
update_auto_replace_WrongValue ==
    SetIfDiffers("auto_replace",
                 current.auto_replace # op.args.auto_replace,
                 "autoreplace", op.args.auto_expand)

\* mod.rs:225-227
update_auto_replace ==
    SetIfDiffers("auto_replace",
                 current.auto_replace # op.args.auto_replace,
                 "autoreplace", op.args.auto_replace)

\* mod.rs:229-231
update_cache_file ==
    SetIfDiffers("cache_file",
                 current.cache_file # op.args.cache_file,
                 "cachefile", op.args.cache_file)

\* the wanted comment without the rule that an empty comment means none
desired_NoEmptyRule(p) == Some(p.comment)

\* mod.rs:234-238  `let desired = if props.comment().is_empty() { None } ...`
desired(p) == IF p.comment = "" THEN None ELSE Some(p.comment)

\* mod.rs:239-241
update_comment ==
    SetIfDiffers("comment",
                 current.comment # desired(op.args),
                 "comment", op.args.comment)

\* delegation set without comparing it with the current value
update_delegation_AlwaysSet ==
    SetIfDiffers("delegation", TRUE, "delegation", op.args.delegation)

\* mod.rs:243-245
update_delegation ==
    SetIfDiffers("delegation",
                 current.delegation # op.args.delegation,
                 "delegation", op.args.delegation)

\* mod.rs:247-249
update_fail_mode ==
    SetIfDiffers("fail_mode",
                 current.fail_mode # op.args.fail_mode,
                 "failmode", op.args.fail_mode)

\* update_properties returning the snapshot `current` instead of reading again
update_reread_ReturnsSnapshot ==
    /\ pc = "reread"
    /\ Return(Ok(current))
    /\ UNCHANGED <<pools, props, vdevs, log, op, current, stderr_raw, classified, io_err, converted>>

\* mod.rs:251  `self.read_properties_unchecked(name)`
update_reread ==
    /\ pc = "reread"
    /\ \E o \in read_properties_unchecked(op.name) :
          /\ Call(log, "read_properties_unchecked", op.name, NoArgs, o)
          /\ Return(o.ret)
    /\ UNCHANGED <<op, current, stderr_raw, classified, io_err, converted>>

\* the caller takes the result; the next operation starts afresh
return ==
    /\ pc = "done"
    /\ pc' = "idle"
    /\ op' = NoOp
    /\ current' = DefaultProperties
    /\ log' = << >>
    /\ result' = NoResult
    /\ UNCHANGED <<pools, props, vdevs, stderr_raw, classified, io_err, converted>>

-----------------------------------------------------------------------------
(* Specification: one caller, any sequence of checked operations on the    *)
(* two pool names.  The properties asked for are one sample that differs   *)
(* from a new pool's in every attribute; SpecUpdate below goes through all *)
(* of them.                                                                *)

SampleWrite ==
    [auto_expand |-> TRUE, auto_replace |-> TRUE, cache_file |-> "None",
     comment |-> "c1", delegation |-> FALSE, fail_mode |-> "Continue"]

\* the properties `create` is called with
CreateProps == {None, Some(SampleWrite)}

Init ==
    /\ pools = {}
    /\ props = [n \in Names |-> DefaultProperties]
    /\ vdevs = [n \in Names |-> << >>]
    /\ pc = "idle"
    /\ op = NoOp
    /\ current = DefaultProperties
    /\ log = << >>
    /\ result = NoResult
    /\ stderr_raw = << >>
    /\ classified = NoResult.val
    /\ io_err = NoIoError
    /\ converted = NoResult.val

Next ==
    \/ \E n \in Names, t \in Topologies, p \in CreateProps,
          m \in Mounts, a \in AltRoots : create(n, t, p, m, a)
    \/ create_delegate
    \/ \E n \in Names : call_exists(n)
    \/ \E n \in Names, f \in BOOLEAN : destroy(n, f)
    \/ destroy_delegate
    \/ \E n \in Names : read_properties(n)
    \/ read_properties_delegate
    \/ \E n \in Names, f \in BOOLEAN : export(n, f)
    \/ export_delegate
    \/ \E n \in Names : status(n)
    \/ status_delegate
    \/ \E n \in Names : update_properties(n, SampleWrite)
    \/ update_read_current
    \/ update_auto_expand
    \/ update_auto_replace
    \/ update_cache_file
    \/ update_comment
    \/ update_delegation
    \/ update_fail_mode
    \/ update_reread
    \/ return

Spec == Init /\ [][Next]_vars

-----------------------------------------------------------------------------
(* Specification of the checked operations next to another actor: while an *)
(* operation of the caller is in progress, somebody else on the host may   *)
(* destroy a pool.  The log records it between the caller's own calls.     *)

\* another actor destroys pool `name` while the caller's operation runs
other_destroy(name) ==
    /\ pc \notin {"idle", "done"}
    /\ \E o \in destroy_unchecked(name, TRUE) :
          /\ o.ret.ok
          /\ pools' = o.pools
          /\ props' = o.props
          /\ vdevs' = o.vdevs
    /\ log' = Append(log, [fn |-> "zpool destroy", name |-> name,
                           args |-> NoArgs, ret |-> Ok(Unit)])
    /\ UNCHANGED <<pc, op, current, result, stderr_raw, classified, io_err, converted>>

NextRace ==
    \/ Next
    \/ \E n \in Names : other_destroy(n)

SpecRace == Init /\ [][NextRace]_vars

-----------------------------------------------------------------------------
(* Specification of update_properties: the pool exists with any            *)
(* properties, and the caller asks for any properties, again and again     *)

InitUpdate ==
    /\ pools = {ZPOOL_NAME}
    /\ \E p \in ZpoolProperties :
          props = [n \in Names |-> IF n = ZPOOL_NAME THEN p ELSE DefaultProperties]
    /\ vdevs = [n \in Names |-> IF n = ZPOOL_NAME THEN <<"/vdevs/vdev0">> ELSE << >>]
    /\ pc = "idle"
    /\ op = NoOp
    /\ current = DefaultProperties
    /\ log = << >>
    /\ result = NoResult
    /\ stderr_raw = << >>
    /\ classified = NoResult.val
    /\ io_err = NoIoError
    /\ converted = NoResult.val

NextUpdate ==
    \/ \E p \in ZpoolPropertiesWrite : update_properties(ZPOOL_NAME, p)
    \/ update_read_current
    \/ update_auto_expand
    \/ update_auto_replace
    \/ update_cache_file
    \/ update_comment
    \/ update_delegation
    \/ update_fail_mode
    \/ update_reread
    \/ return

SpecUpdate == InitUpdate /\ [][NextUpdate]_vars

\* the same, with a successful update_properties call repeated
NextTwice ==
    \/ NextUpdate
    \/ update_properties_again

SpecTwice == InitUpdate /\ [][NextTwice]_vars

-----------------------------------------------------------------------------
(* Specification of the classifier: from_stderr applied to one diagnostic  *)
(* text assembled from at most MaxFrags fragments                          *)

\* the fixtures of mod.rs:298, 299, 315, 346, 354 and variations of them that
\* miss a pattern by one token
Fragments ==
    {<<PRE, FE, "/vdevs/vdev0", IPOAP, "tank", QUOTE>>,
     <<"wat">>,
     <<CC, QUOTE, "tests", QUOTE, ZOL>>,
     <<CC, QUOTE, "tests", QUOTE, TS, "(64M)", NL>>,
     <<CC, QUOTE, "tests", QUOTE, PD>>,
     <<FE, IPOAP, "tank", QUOTE>>,
     <<FE, "/vdevs/vdev0", IPOAP, "tank">>,
     <<CC, PD>>,
     <<CC, "tests", TS>>,
     <<QUOTE>>,
     <<SP>>,
     <<BadByte>>}

RECURSIVE TextsOf(_)
TextsOf(n) ==
    IF n = 0 THEN {<< >>}
    ELSE LET shorter == TextsOf(n - 1) IN
         shorter \cup {t \o f : t \in shorter, f \in Fragments}

Texts == TextsOf(MaxFrags)

Unclassified == NoResult.val

InitClassify ==
    /\ pools = {}
    /\ props = [n \in Names |-> DefaultProperties]
    /\ vdevs = [n \in Names |-> << >>]
    /\ pc = "idle"
    /\ op = NoOp
    /\ current = DefaultProperties
    /\ log = << >>
    /\ result = NoResult
    /\ stderr_raw \in Texts
    /\ classified = Unclassified
    /\ io_err = NoIoError
    /\ converted = NoResult.val

\* the call ZpoolError::from_stderr(stderr_raw)
classify ==
    /\ classified = Unclassified
    /\ classified' = from_stderr(stderr_raw)
    /\ UNCHANGED <<pools, props, vdevs, pc, op, current, log, result, stderr_raw, io_err, converted>>

NextClassify == classify

SpecClassify == InitClassify /\ [][NextClassify]_vars

-----------------------------------------------------------------------------
(* Specification of the conversion of io::Error: ZpoolError::from applied  *)
(* to one io::Error                                                        *)

Unconverted == NoResult.val

InitConvert ==
    /\ pools = {}
    /\ props = [n \in Names |-> DefaultProperties]
    /\ vdevs = [n \in Names |-> << >>]
    /\ pc = "idle"
    /\ op = NoOp
    /\ current = DefaultProperties
    /\ log = << >>
    /\ result = NoResult
    /\ stderr_raw = << >>
    /\ classified = Unclassified
    /\ io_err \in IoErrors
    /\ converted = Unconverted

\* the call ZpoolError::from(io_err)
convert ==
    /\ converted = Unconverted
    /\ converted' = from(io_err)
    /\ UNCHANGED <<pools, props, vdevs, pc, op, current, log, result, stderr_raw,
                   classified, io_err>>

NextConvert == convert

SpecConvert == InitConvert /\ [][NextConvert]_vars

-----------------------------------------------------------------------------
(* Properties *)

\* the unchecked primitive a checked operation delegates to
Unchecked(fn) ==
    CASE fn = "create"          -> "create_unchecked"
      [] fn = "destroy"         -> "destroy_unchecked"
      [] fn = "read_properties" -> "read_properties_unchecked"
      [] fn = "export"          -> "export_unchecked"
      [] fn = "status"          -> "status_unchecked"
      [] OTHER                  -> "-"

\* the positions in the log of the calls of primitive fn
CallsOf(fn) == {i \in DOMAIN log : log[i].fn = fn}

\* the operation's first backend call was exists(name), and it returned b
ExistsReturned(b) ==
    /\ Len(log) >= 1
    /\ log[1].fn = "exists"
    /\ log[1].name = op.name
    /\ log[1].ret.ok
    /\ log[1].ret.val = b

\* C1: destroy, export, read_properties and status on a name for which
\* exists(name) returns false return PoolNotFound, and the unchecked
\* primitive of the operation is never invoked during that call.
C1_MissingPoolShortCircuits ==
    (op.fn \in {"destroy", "export", "read_properties", "status"} /\ ExistsReturned(FALSE))
        => /\ pc = "done"
           /\ result = Err(PoolNotFound)
           /\ CallsOf(Unchecked(op.fn)) = {}

C1_Witness ==
    /\ pc = "done"
    /\ op.fn = "export"
    /\ ExistsReturned(FALSE)
    /\ result = Err(PoolNotFound)

\* C2: create with a topology that is not suitable for create returns
\* InvalidTopology and never invokes create_unchecked, whatever the name,
\* the properties, the mount point and the alt root are.
C2_InvalidTopologyRejected ==
    (op.fn = "create" /\ ~is_suitable_for_create(op.args.topology))
        => /\ pc = "done"
           /\ result = Err(InvalidTopology)
           /\ CallsOf("create_unchecked") = {}

C2_Witness ==
    /\ pc = "done"
    /\ op.fn = "create"
    /\ ~is_suitable_for_create(op.args.topology)
    /\ op.args.props # None
    /\ op.args.mount # None
    /\ op.args.alt_root # None
    /\ result = Err(InvalidTopology)

\* an update_properties call has returned
UpdateDone == pc = "done" /\ op.fn = "update_properties"

\* the properties the initial read of update_properties returned
InitialRead == log[2].ret.val

\* the value update_properties wants attribute number a to have
Wanted(a) ==
    CASE a = 1 -> op.args.auto_expand
      [] a = 2 -> op.args.auto_replace
      [] a = 3 -> op.args.cache_file
      [] a = 4 -> op.args.comment
      [] a = 5 -> op.args.delegation
      [] a = 6 -> op.args.fail_mode

\* attribute number a of the properties cur differs from what is wanted; for
\* the comment an empty wanted comment stands for a pool without comment
Differs(cur, a) ==
    CASE a = 1 -> cur.auto_expand # op.args.auto_expand
      [] a = 2 -> cur.auto_replace # op.args.auto_replace
      [] a = 3 -> cur.cache_file # op.args.cache_file
      [] a = 4 -> ~ \/ (cur.comment = None /\ op.args.comment = "")
                    \/ (cur.comment # None /\ cur.comment[1] = op.args.comment)
      [] a = 5 -> cur.delegation # op.args.delegation
      [] a = 6 -> cur.fail_mode # op.args.fail_mode

\* the positions in the log of the set calls for attribute number a
SetsOf(a) == {i \in CallsOf("set_unchecked") : log[i].args[1] = Keys[a]}

\* C3: in an update_properties call in which every backend call succeeds,
\* every attribute that differs from the wanted value gets exactly one set
\* call, carrying the wanted value, every other attribute gets none, and
\* the number of set calls is the number of differing attributes.
C3_OneSetPerDifference ==
    (UpdateDone /\ \A i \in DOMAIN log : log[i].ret.ok) /\ ExistsReturned(TRUE)
        => /\ \A a \in 1..6 :
                /\ Cardinality(SetsOf(a)) = (IF Differs(InitialRead, a) THEN 1 ELSE 0)
                /\ \A i \in SetsOf(a) : log[i].args[2] = Wanted(a) /\ log[i].name = op.name
           /\ Cardinality(CallsOf("set_unchecked"))
                = Cardinality({a \in 1..6 : Differs(InitialRead, a)})

\* all six attributes differ, among them the comment, which is to be cleared
C3_Witness ==
    /\ UpdateDone
    /\ result.ok
    /\ Cardinality(CallsOf("set_unchecked")) = 6
    /\ op.args.comment = ""

\* no attribute differs and no set call is issued
C3_WitnessNone ==
    /\ UpdateDone
    /\ result.ok
    /\ CallsOf("set_unchecked") = {}
    /\ InitialRead.comment # None

\* the attributes that differ at the initial read, in the order of Keys
Differing == SelectSeq(<<1, 2, 3, 4, 5, 6>>, LAMBDA a : Differs(InitialRead, a))

\* a set call of the update_properties call failed
SetFailed == \E i \in CallsOf("set_unchecked") : ~log[i].ret.ok

\* C4: if the k-th set call of update_properties fails, it is the last
\* backend call (no later set call, no rollback), the calls issued are those
\* for the first k differing attributes, the changes of the first k-1 are in
\* the backend, the others are as they were, and update_properties returns
\* the failure of the k-th.
C4_FirstFailureStops ==
    (UpdateDone /\ SetFailed)
        => LET k == Len(log) - 2 IN
           /\ ~log[Len(log)].ret.ok
           /\ log[Len(log)].fn = "set_unchecked"
           /\ result = log[Len(log)].ret
           /\ k <= Len(Differing)
           /\ \A j \in 1..k :
                /\ log[2 + j].fn = "set_unchecked"
                /\ log[2 + j].args[1] = Keys[Differing[j]]
                /\ j < k => log[2 + j].ret.ok /\ ~Differs(props[op.name], Differing[j])
           /\ \A j \in k..Len(Differing) : Differs(props[op.name], Differing[j])
           /\ op.name \in pools

\* the second of four or more set calls fails
C4_Witness ==
    /\ UpdateDone
    /\ SetFailed
    /\ Len(log) = 4
    /\ Len(Differing) >= 4
    /\ result = Err(Other(<<"wat">>))

\* the position of a property name in Keys
KeyIndex(key) == CHOOSE a \in 1..6 : Keys[a] = key

\* C5: the set calls of one update_properties call come in the order
\* auto-expand, auto-replace, cache-file, comment, delegation, fail-mode,
\* all of them after the initial read and before the final read.
C5_FixedOrder ==
    op.fn = "update_properties"
        => /\ \A i, j \in CallsOf("set_unchecked") :
                i < j => KeyIndex(log[i].args[1]) < KeyIndex(log[j].args[1])
           /\ \A i \in CallsOf("set_unchecked") :
                /\ i > 2
                /\ log[2].fn = "read_properties_unchecked"
                /\ log[2].ret.ok
           /\ \A r \in CallsOf("read_properties_unchecked") :
                \/ r = 2
                \/ r = Len(log) /\ \A i \in CallsOf("set_unchecked") : i < r

C5_Witness ==
    /\ UpdateDone
    /\ result.ok
    /\ Len(log) = 9
    /\ op.args.comment # ""

\* update_properties has gone past the comment
CommentDecided ==
    /\ op.fn = "update_properties"
    /\ \/ pc \in {"delegation", "fail_mode", "reread"}
       \/ pc = "done" /\ result.ok
       \/ /\ pc = "done"
          /\ Len(log) > 2
          /\ log[Len(log)].fn = "set_unchecked"
          /\ log[Len(log)].args[1] \in {"comment", "delegation", "failmode"}

\* C6: an empty wanted comment means no comment.  With an empty wanted
\* comment there is no set call for the comment when the pool has none and
\* exactly one when it has one; with a non-empty wanted comment there is
\* exactly one when the pool has none or another one, and none otherwise.
C6_EmptyCommentMeansNone ==
    CommentDecided
        => LET had == InitialRead.comment
               n == Cardinality(SetsOf(4))
           IN /\ (op.args.comment = "" /\ had = None) => n = 0
              /\ (op.args.comment = "" /\ had # None) => n = 1
              /\ (op.args.comment # "")
                    => (n = 1 <=> (had = None \/ had # Some(op.args.comment)))
              /\ n <= 1
              /\ \A i \in SetsOf(4) : log[i].args[2] = op.args.comment

C6_Witness ==
    /\ UpdateDone
    /\ result.ok
    /\ op.args.comment = ""
    /\ InitialRead.comment = None
    /\ SetsOf(4) = {}
    /\ Cardinality(CallsOf("set_unchecked")) = 5

\* C7: when update_properties succeeds it has read the properties exactly
\* twice, before every set call and after every set call, and it returns
\* what the second read returned: the properties the pool has after the
\* update.
C7_ReturnsSecondRead ==
    (UpdateDone /\ result.ok)
        => /\ Len(log) >= 3
           /\ CallsOf("read_properties_unchecked") = {2, Len(log)}
           /\ \A i \in CallsOf("set_unchecked") : 2 < i /\ i < Len(log)
           /\ result = log[Len(log)].ret
           /\ result.val = props[op.name]

\* the value returned differs from the snapshot read before the sets
C7_Witness ==
    /\ UpdateDone
    /\ result.ok
    /\ CallsOf("set_unchecked") # {}
    /\ result.val # InitialRead
    /\ result.val # current

\* the guard of the checked operation in progress has passed
GuardPassed ==
    IF op.fn = "create" THEN is_suitable_for_create(op.args.topology)
    ELSE ExistsReturned(TRUE)

\* C8: create, destroy, read_properties, export and status whose guard
\* passes invoke their unchecked primitive exactly once, with the caller's
\* arguments, and return exactly what that invocation returned; no call is
\* repeated.
C8_DelegatesOnceUnmodified ==
    (pc = "done" /\ op.fn \in {"create", "destroy", "read_properties", "export", "status"}
        /\ GuardPassed)
        => /\ Cardinality(CallsOf(Unchecked(op.fn))) = 1
           /\ Len(log) = (IF op.fn = "create" THEN 1 ELSE 2)
           /\ LET c == log[Len(log)] IN
                /\ c.fn = Unchecked(op.fn)
                /\ c.name = op.name
                /\ c.args = op.args
                /\ result = c.ret

\* destroy returns the error of destroy_unchecked as it is
C8_Witness ==
    /\ pc = "done"
    /\ op.fn = "destroy"
    /\ ExistsReturned(TRUE)
    /\ result = Err(Other(<<"wat">>))
    /\ log[2].ret = result

\* the checked operation ended in a guard failure
GuardFailure ==
    /\ pc = "done"
    /\ \/ op.fn = "create" /\ result = Err(InvalidTopology)
       \/ /\ op.fn \in {"destroy", "read_properties", "export", "status", "update_properties"}
          /\ result = Err(PoolNotFound)

\* C9 as stated: no backend primitive is invoked during a call that ends in
\* a guard failure.
C9_NoBackendCall == GuardFailure => log = << >>

\* C9 amended: a call that ends in InvalidTopology invokes no backend
\* primitive; a call that ends in PoolNotFound invokes exactly one, the
\* guard's exists(name), which answered false.
C9_OnlyTheGuardQuery ==
    GuardFailure
        => IF op.fn = "create" THEN log = << >>
           ELSE Len(log) = 1 /\ ExistsReturned(FALSE)

C9_Witness ==
    /\ GuardFailure
    /\ op.fn = "update_properties"
    /\ Len(log) = 1

\* the numbers of the patterns of from_stderr that match the text t
Matching(t) ==
    {i \in 1..4 : \/ i = 1 /\ RE_REUSE_VDEV(t)
                  \/ i = 2 /\ RE_REUSE_VDEV_ZOL(t)
                  \/ i = 3 /\ RE_TOO_SMALL(t)
                  \/ i = 4 /\ RE_PERMISSION_DENIED(t)}

\* the error pattern number i stands for
ErrorOfPattern(i, t) ==
    CASE i = 1 -> VdevReuse(captures(t)[1], captures(t)[2])
      [] i = 2 -> VdevReuse(<< >>, << >>)
      [] i = 3 -> DeviceTooSmall
      [] i = 4 -> PermissionDenied

\* C10: from_stderr returns the error of the lowest-numbered pattern among
\* those that match the text, in the order vdev reuse with captures, vdev
\* reuse without, device too small, permission denied.
C10_FirstMatchWins ==
    classified # Unclassified
        => LET t == from_utf8_lossy(stderr_raw) IN
           Matching(t) # {} => classified = ErrorOfPattern(Min(Matching(t)), t)

\* a text that patterns 2, 3 and 4 match, and not pattern 1
C10_Witness ==
    /\ classified = VdevReuse(<< >>, << >>)
    /\ Matching(from_utf8_lossy(stderr_raw)) = {2, 3, 4}

\* the text t holds, from position i on, the words of the vdev-reuse
\* diagnostic around the path v and the pool name p
ReuseDiagnosticAt(t, i, v, p) ==
    /\ v # << >> /\ p # << >>
    /\ \A k \in DOMAIN v : NonSpace(v[k])
    /\ \A k \in DOMAIN p : NonSpace(p[k])
    /\ i + Len(v) + Len(p) + 2 <= Len(t)
    /\ SubSeq(t, i, i + Len(v) + Len(p) + 2) = <<FE>> \o v \o <<IPOAP>> \o p \o <<QUOTE>>

\* C11: when the text matches the vdev-reuse pattern with groups,
\* from_stderr returns VdevReuse(vdev, pool) where vdev and pool are exactly
\* the path and the pool name found in the text around " is part of active
\* pool '"; when only the distribution-specific variant matches, it returns
\* VdevReuse with both fields empty.
C11_ReusePayloadIsCaptured ==
    classified # Unclassified
        => LET t == from_utf8_lossy(stderr_raw) IN
           /\ RE_REUSE_VDEV(t)
                => /\ kind(classified) = "VdevReuse"
                   /\ \E i \in 1..Len(t) :
                         ReuseDiagnosticAt(t, i, classified.payload[1], classified.payload[2])
           /\ (~RE_REUSE_VDEV(t) /\ RE_REUSE_VDEV_ZOL(t))
                => classified = VdevReuse(<< >>, << >>)

\* the fixture of mod.rs:298 classified
C11_Witness ==
    /\ stderr_raw = <<PRE, FE, "/vdevs/vdev0", IPOAP, "tank", QUOTE>>
    /\ classified = VdevReuse(<<"/vdevs/vdev0">>, <<"tank">>)

\* the fixture of mod.rs:299 classified
C11_WitnessZol ==
    /\ stderr_raw = <<CC, QUOTE, "tests", QUOTE, ZOL>>
    /\ classified = VdevReuse(<< >>, << >>)

\* the kinds of error from_stderr can return
ClassifiedKinds == {"VdevReuse", "DeviceTooSmall", "PermissionDenied", "Other"}

\* text is raw decoded: the same length, every valid token kept and every
\* invalid byte replaced by U+FFFD
DecodedFrom(text, raw) ==
    /\ Len(text) = Len(raw)
    /\ \A i \in DOMAIN raw :
          text[i] = IF raw[i] = BadByte THEN Replacement ELSE raw[i]

\* C12: from_stderr is total: for every input, the empty one and the ones
\* with invalid bytes included, the call has a value, one error of the kinds
\* VdevReuse, DeviceTooSmall, PermissionDenied and Other, and returns it; when
\* no pattern matches, it returns Other whose message is the whole decoded
\* input.
C12_Total ==
    /\ classified = Unclassified => kind(from_stderr(stderr_raw)) \in ClassifiedKinds
    /\ classified # Unclassified
         => /\ kind(classified) \in ClassifiedKinds
            /\ Matching(from_utf8_lossy(stderr_raw)) = {}
                 => /\ kind(classified) = "Other"
                    /\ Len(classified.payload) = 1
                    /\ DecodedFrom(classified.payload[1], stderr_raw)

\* a text with an invalid byte that no pattern matches
C12_Witness ==
    /\ stderr_raw = <<"wat", BadByte, SP>>
    /\ classified = Other(<<"wat", Replacement, SP>>)

\* the empty text
C12_WitnessEmpty ==
    /\ stderr_raw = << >>
    /\ classified = Other(<< >>)

\* C13: converting an io::Error yields CmdNotFound exactly when the kind of
\* the io::Error is NotFound, and otherwise yields Io carrying that very
\* io::Error; it yields no other kind of error.
C13_IoErrorConversion ==
    converted # Unconverted
        => /\ kind(converted) \in {"CmdNotFound", "Io"}
           /\ kind(converted) = "CmdNotFound" <=> io_err.kind = "NotFound"
           /\ kind(converted) = "Io" => converted.payload = <<io_err>>

\* the second case of the test io_error_from
C13_Witness ==
    /\ io_err = [kind |-> "Other", repr |-> "oh now"]
    /\ converted = Io(io_err)

\* the first case of the test io_error_from
C13_WitnessNotFound ==
    /\ io_err = [kind |-> "NotFound", repr |-> "oh no"]
    /\ converted = CmdNotFound

\* the backend's state
backend == <<pools, props, vdevs>>

\* this step is a call of exists, the last entry of the log' being its record
ExistsStep ==
    /\ log' # log
    /\ log' # << >>
    /\ log'[Len(log')].fn = "exists"

\* what holds of a step that calls exists
ExistsIsReadOnly ==
    ExistsStep
        => LET call == log'[Len(log')] IN
           /\ backend' = backend
           /\ call.ret.ok => call.ret.val = (call.name \in pools)
           /\ call.ret # Err(PoolNotFound)

\* what holds of a step that returns PoolNotFound
RejectionChangesNothing ==
    (result' # result /\ result' = Err(PoolNotFound)) => backend' = backend

\* C14: a call of exists(name), made by the caller or by a guard, leaves
\* the pools and their properties as they are; the boolean it returns is
\* decided by the backend's state alone, so that calls repeated on an
\* unchanged backend return the same; a missing pool is reported as false
\* and never as PoolNotFound; and an operation rejected with PoolNotFound
\* leaves the backend unchanged.
C14_ExistsReadOnly ==
    [][ExistsIsReadOnly /\ RejectionChangesNothing]_vars

\* destroy of a missing pool rejected while the other pool exists
C14_Witness ==
    /\ pc = "done"
    /\ op.fn = "destroy"
    /\ result = Err(PoolNotFound)
    /\ pools # {}

\* the caller asked exists itself and the pool exists
C14_WitnessDirect ==
    /\ pc = "done"
    /\ op.fn = "exists"
    /\ result = Ok(TRUE)

\* the operations that begin with the existence guard
Guarded == {"destroy", "export", "status", "read_properties", "update_properties"}

\* entry i of the log is the other actor destroying the caller's pool
Interference(i) == log[i].fn = "zpool destroy" /\ log[i].name = op.name

\* entry j of the log is a call of the caller
Own(j) == log[j].fn # "zpool destroy"

\* C15: the guard is check-then-act.  When exists(name) answered true and
\* another actor destroys the pool before the operation is over, the
\* operation does not notice: it goes on to invoke its next primitive on the
\* pool that is gone, that call fails, and the caller receives the
\* backend's error as it is.
C15_CheckThenAct ==
    (op.fn \in Guarded /\ ExistsReturned(TRUE))
        => \A i \in DOMAIN log :
              Interference(i)
                 => /\ pc = "done" => \E j \in (i + 1)..Len(log) : Own(j)
                    /\ \A j \in (i + 1)..Len(log) : Own(j) =>
                          /\ j = Len(log)
                          /\ log[j].fn # "exists"
                          /\ log[j].name = op.name
                          /\ ~log[j].ret.ok
                          /\ log[j].ret.val \in BackendErrors
                          /\ pc = "done"
                          /\ result = log[j].ret

\* operation fn saw exists = true, lost the pool to the other actor, and
\* invoked primitive prim all the same
LostRace(fn, prim) ==
    /\ pc = "done"
    /\ op.fn = fn
    /\ ExistsReturned(TRUE)
    /\ Len(log) = 3
    /\ Interference(2)
    /\ log[3].fn = prim
    /\ op.name \notin pools
    /\ result = Err(Other(<<"wat">>))

C15_Witness == LostRace("destroy", "destroy_unchecked")

C15_WitnessExport == LostRace("export", "export_unchecked")

C15_WitnessStatus == LostRace("status", "status_unchecked")

C15_WitnessRead == LostRace("read_properties", "read_properties_unchecked")

C15_WitnessUpdate == LostRace("update_properties", "read_properties_unchecked")

\* update_properties loses the pool after its initial read and fails in a set
C15_WitnessUpdateSet ==
    /\ pc = "done"
    /\ op.fn = "update_properties"
    /\ Len(log) = 4
    /\ Interference(3)
    /\ log[4].fn = "set_unchecked"
    /\ result = log[4].ret

\* what exists(name) can answer in the current state when it answers
ExistsAnswers(name) == {o.ret.val : o \in {x \in exists(name) : x.ret.ok}}

\* C16: once create(name, valid topology) has succeeded, exists(name)
\* answers true; once destroy(name) has succeeded, exists(name) answers
\* false; in every sequence of operations of a single caller.
C16_Lifecycle ==
    (pc = "done" /\ result.ok)
        => /\ op.fn = "create"
                => is_suitable_for_create(op.args.topology) /\ ExistsAnswers(op.name) = {TRUE}
           /\ op.fn = "destroy" => ExistsAnswers(op.name) = {FALSE}

\* destroy has succeeded, which takes a create that succeeded before it,
\* and the other pool is still there
C16_Witness ==
    /\ pc = "done"
    /\ op.fn = "destroy"
    /\ result = Ok(Unit)
    /\ ExistsAnswers(op.name) = {FALSE}
    /\ pools # {}

C16_WitnessCreate ==
    /\ pc = "done"
    /\ op.fn = "create"
    /\ result = Ok(Unit)
    /\ ExistsAnswers(op.name) = {TRUE}

\* create has returned, and its topology holds a vdev of an active pool
ReuseAttempted ==
    /\ pc = "done"
    /\ op.fn = "create"
    /\ op.name \notin pools
    /\ InUse(op.args.topology) # {}

\* the VdevReuse errors that name a vdev of the topology that is in use and
\* the pool that owns it
NamingReuse == {VdevReuse(<<u[1]>>, <<u[2]>>) : u \in InUse(op.args.topology)}

C17_WitnessZol ==
    /\ ReuseAttempted
    /\ op.name = "zpool-tests-fail"
    /\ op.args.topology = <<"/vdevs/vdev0">>
    /\ result = Err(VdevReuse(<< >>, << >>))

\* C18: update_properties issues no set_unchecked unless the guard and the
\* initial read both succeeded.  When exists answers false, it returns
\* PoolNotFound after that one call; when exists or the initial read
\* answers with an error, it returns that error as it is, and that call was
\* its last.
C18_NoSetBeforeGuardAndRead ==
    (op.fn = "update_properties" /\ log # << >>)
        => /\ log[1].fn = "exists"
           /\ CallsOf("set_unchecked") # {}
                => /\ ExistsReturned(TRUE)
                   /\ log[2].fn = "read_properties_unchecked"
                   /\ log[2].ret.ok
                   /\ \A i \in CallsOf("set_unchecked") : i > 2
           /\ ExistsReturned(FALSE)
                => pc = "done" /\ result = Err(PoolNotFound) /\ Len(log) = 1
           /\ ~log[1].ret.ok
                => pc = "done" /\ result = log[1].ret /\ Len(log) = 1
           /\ Len(log) >= 2
                => /\ log[2].fn = "read_properties_unchecked"
                   /\ ~log[2].ret.ok
                        => pc = "done" /\ result = log[2].ret /\ Len(log) = 2

\* the guard passed, the initial read failed, and update_properties wanted
\* to change the pool
C18_Witness ==
    /\ UpdateDone
    /\ ExistsReturned(TRUE)
    /\ Len(log) = 2
    /\ result = Err(CmdNotFound)
    /\ props[op.name].fail_mode # op.args.fail_mode

\* exists itself failed
C18_WitnessExistsFailed ==
    /\ UpdateDone
    /\ Len(log) = 1
    /\ result = Err(Other(<<"wat">>))

\* exists answered false
C18_WitnessMissing ==
    /\ UpdateDone
    /\ ExistsReturned(FALSE)
    /\ result = Err(PoolNotFound)
    /\ pools # {}

\* the update_properties call has returned after its guard and its initial
\* read succeeded
UpdateRan ==
    /\ UpdateDone
    /\ ExistsReturned(TRUE)
    /\ Len(log) >= 2
    /\ log[2].ret.ok

\* the last backend call of the operation was a read after the initial one
EndsWithReread ==
    /\ Len(log) >= 3
    /\ log[Len(log)].fn = "read_properties_unchecked"

\* C19 as stated: whether all applicable set calls completed or the first
\* failing one aborted the rest, read_properties_unchecked is invoked again
\* before update_properties returns.
C19_RereadInBothCases == UpdateRan => EndsWithReread

\* C19 amended: when every applicable set call succeeded, update_properties
\* reads the properties once more after the last of them, and that read is
\* its last call; when a set call fails, update_properties returns that
\* failure at once and the initial read remains the only read.
C19_RereadOnlyAfterSuccess ==
    UpdateRan
        => IF SetFailed
           THEN /\ CallsOf("read_properties_unchecked") = {2}
                /\ log[Len(log)].fn = "set_unchecked"
                /\ result = log[Len(log)].ret
           ELSE /\ EndsWithReread
                /\ CallsOf("read_properties_unchecked") = {2, Len(log)}
                /\ result = log[Len(log)].ret

\* the second of two set calls failed: no read follows it
C19_Witness ==
    /\ UpdateRan
    /\ SetFailed
    /\ Len(log) = 4
    /\ log[3].fn = "set_unchecked" /\ log[3].ret.ok
    /\ CallsOf("read_properties_unchecked") = {2}
    /\ result = Err(CmdNotFound)

\* three set calls succeeded and the final read follows
C19_WitnessSuccess ==
    /\ UpdateRan
    /\ ~SetFailed
    /\ Len(log) = 6
    /\ result.ok

\* the unchecked primitives the guarded operations invoke
GuardedPrimitives ==
    {"destroy_unchecked", "export_unchecked", "status_unchecked",
     "read_properties_unchecked", "set_unchecked"}

\* this step invokes one of the guarded primitives
PrimitiveStep ==
    /\ log' # log
    /\ log' # << >>
    /\ log'[Len(log')].fn \in GuardedPrimitives

\* C20: with a single caller and nobody else changing the backend, every
\* destroy_unchecked, export_unchecked, status_unchecked,
\* read_properties_unchecked and set_unchecked a checked operation invokes
\* is invoked on a pool that exists at that moment.
C20_PrimitivesTargetExistingPool ==
    [][PrimitiveStep => log'[Len(log')].name \in pools]_vars

\* an update_properties call that read, set every attribute and read again
C20_Witness ==
    /\ UpdateDone
    /\ Len(log) = 9
    /\ result.ok

C20_WitnessExport ==
    /\ pc = "done"
    /\ op.fn = "export"
    /\ result = Ok(Unit)

\* the properties p agree with the wanted ones on all six attributes, no
\* comment standing for the empty comment
Agrees(p) == \A a \in 1..6 : ~Differs(p, a)

\* the positions in the log where an update_properties call begins
Begins == CallsOf("exists")

\* C21: against a backend that stores what is set, an empty comment as no
\* comment, the properties a successful update_properties(name, desired)
\* returns agree with desired on all six attributes, and the same call made
\* once more issues no set call and, when it succeeds, returns the same
\* properties.
C21_Idempotent ==
    op.fn = "update_properties"
        => /\ (pc = "done" /\ result.ok /\ Cardinality(Begins) = 1)
                => Agrees(result.val)
           /\ Cardinality(Begins) = 2
                => LET k == Max(Begins) IN
                   /\ log[k - 1].fn = "read_properties_unchecked"
                   /\ log[k - 1].ret.ok
                   /\ Agrees(log[k - 1].ret.val)
                   /\ \A i \in CallsOf("set_unchecked") : i < k
                   /\ (pc = "done" /\ result.ok)
                        => /\ result = log[k - 1].ret
                           /\ Len(log) = k + 2

\* the first call set all six attributes, the empty comment among them; the
\* second call read twice and set nothing
C21_Witness ==
    /\ UpdateDone
    /\ result.ok
    /\ op.args.comment = ""
    /\ Len(log) = 12
    /\ Begins = {1, 10}
    /\ CallsOf("set_unchecked") = 3..8
    /\ result = log[9].ret

\* C22: the topology check is the only guard of create.  With a suitable
\* topology create never calls exists and calls create_unchecked exactly
\* once, also when a pool of that name exists, and returns what
\* create_unchecked returned.
C22_CreateGuardedByTopologyOnly ==
    (op.fn = "create" /\ is_suitable_for_create(op.args.topology))
        => /\ CallsOf("exists") = {}
           /\ pc \in {"create_unchecked", "done"}
           /\ pc = "create_unchecked" => log = << >>
           /\ pc = "done"
                => /\ Len(log) = 1
                   /\ log[1].fn = "create_unchecked"
                   /\ log[1].name = op.name
                   /\ log[1].args = op.args
                   /\ result = log[1].ret

\* create on the name of a pool that exists, built from another vdev:
\* create_unchecked was called and its error is the result
C22_Witness ==
    /\ pc = "done"
    /\ op.fn = "create"
    /\ is_suitable_for_create(op.args.topology)
    /\ op.name \in pools
    /\ vdevs[op.name] # op.args.topology
    /\ Len(log) = 1
    /\ result = Err(Other(<<"wat">>))

====
